---- MODULE Spec2Model ----
(***************************************************************************)
(* Scoring API (src/src/scoring_api/api.py, src/src/scoring_api/scoring.py)*)
(* as a state machine: declarative request schemas, token authentication,  *)
(* the method dispatcher and the store-backed scoring/interests logic.     *)
(*                                                                         *)
(* JSON / Python values are records [ty, s, l, d]:                         *)
(*   ty  the Python type ("null","bool","int","float","str","list","dict", *)
(*       and "Field" for a Field descriptor object of a schema class)      *)
(*   s   the text of a scalar: a string's characters, a number's numeral,  *)
(*       "true"/"false" for a boolean                                      *)
(*   l   the elements of a list, each a pair <<ty, s>>                     *)
(*   d   the items of a dict, a function from keys to values               *)
(***************************************************************************)
EXTENDS Integers, Sequences, FiniteSets, TLC

VARIABLES
    tick,       \* hours elapsed on the wall clock since the first request
    kv,         \* the redis keyspace: key -> [v, ex]
    failsLeft,  \* how many of the next backend calls raise
    failKind,   \* what they raise: "ConnectionError" or "RedisError"
    okLeft,     \* how many backend calls still succeed before those
    pc,         \* "idle" or "returned"
    request,    \* the request handed to the last call
    result,     \* what the last call returned or raised
    ctx,        \* the context dict of the last call
    calls,      \* the backend calls the last call made, in order
    inst,       \* the last schema instance constructed on its own
    kept,       \* an earlier get_score call, remembered to compare later calls with
    reply       \* what the transport wrote for the last POST

vars == <<tick, kv, failsLeft, failKind, okLeft, pc, request, result, ctx, calls, inst, kept, reply>>

(***************************** bounds **************************************)
MaxTick == 1
MaxFails == 3
MaxCached == 1

(***************************** constants ***********************************)
SALT == "Otus"
ADMIN_LOGIN == "admin"
ADMIN_SALT == "42"
OK == 200
BAD_REQUEST == 400
FORBIDDEN == 403
NOT_FOUND == 404
INVALID_REQUEST == 422
INTERNAL_ERROR == 500

ERRORS ==
    [c \in {BAD_REQUEST, FORBIDDEN, NOT_FOUND, INVALID_REQUEST, INTERNAL_ERROR} |->
        CASE c = BAD_REQUEST -> "Bad Request"
          [] c = FORBIDDEN -> "Forbidden"
          [] c = NOT_FOUND -> "Not Found"
          [] c = INVALID_REQUEST -> "Invalid Request"
          [] OTHER -> "Internal Server Error"]

\* GENDERS: the keys of the dict, as numerals
GENDERS == {"0", "1", "2"}

(***************************** values **************************************)
NoItems == [k \in {} |-> k]

JNull == [ty |-> "null", s |-> "", l |-> <<>>, d |-> NoItems]
JStr(x) == [ty |-> "str", s |-> x, l |-> <<>>, d |-> NoItems]
JInt(numeral) == [ty |-> "int", s |-> numeral, l |-> <<>>, d |-> NoItems]
JFloat(numeral) == [ty |-> "float", s |-> numeral, l |-> <<>>, d |-> NoItems]
JBool(b) == [ty |-> "bool", s |-> IF b THEN "true" ELSE "false", l |-> <<>>, d |-> NoItems]
JList(items) == [ty |-> "list", s |-> "", l |-> items, d |-> NoItems]
JDict(f) == [ty |-> "dict", s |-> "", l |-> <<>>, d |-> f]

PyBool(b) == IF b THEN "True" ELSE "False"

\* Field.__str__ ; a Field object is what attribute lookup on an instance
\* yields for a declared field that was never set on the instance.
FieldStr(required, nullable) ==
    "Field(required=" \o PyBool(required) \o ", nullable=" \o PyBool(nullable) \o ")"

FieldObject(required, nullable) ==
    [ty |-> "Field", s |-> FieldStr(required, nullable), l |-> <<>>, d |-> NoItems]

\* str(value)
PyStr(v) ==
    CASE v.ty = "bool" -> PyBool(v.s = "true")
      [] v.ty = "null" -> "None"
      [] OTHER -> v.s

\* bool(value)
Truthy(v) ==
    CASE v.ty = "null" -> FALSE
      [] v.ty = "str" -> v.s # ""
      [] v.ty = "bool" -> v.s = "true"
      [] v.ty = "int" -> v.s # "0"
      [] v.ty = "float" -> v.s \notin {"0.0", "-0.0"}
      [] v.ty = "list" -> v.l # <<>>
      [] v.ty = "dict" -> DOMAIN v.d # {}
      [] OTHER -> TRUE

(***************************** text ****************************************)
Digits == <<"0", "1", "2", "3", "4", "5", "6", "7", "8", "9">>

DigitValue(c) ==
    IF \E i \in 1..10 : Digits[i] = c
    THEN (CHOOSE i \in 1..10 : Digits[i] = c) - 1
    ELSE -1

RECURSIVE Numeral(_)
Numeral(n) == IF n < 10 THEN Digits[n + 1] ELSE Numeral(n \div 10) \o Digits[(n % 10) + 1]

RECURSIVE Pad(_, _)
Pad(text, width) == IF Len(text) >= width THEN text ELSE Pad("0" \o text, width)

\* the value of a run of decimal digits, -1 when the text is not one
RECURSIVE NatOf(_)
NatOf(text) ==
    IF text = "" THEN -1
    ELSE LET last == DigitValue(SubSeq(text, Len(text), Len(text)))
             init == SubSeq(text, 1, Len(text) - 1)
         IN  IF last < 0 THEN -1
             ELSE IF init = "" THEN last
             ELSE IF NatOf(init) < 0 THEN -1 ELSE NatOf(init) * 10 + last

\* str.split(sep) for a one-character separator
RECURSIVE Split(_, _)
Split(text, sep) ==
    IF \A i \in 1..Len(text) : SubSeq(text, i, i) # sep
    THEN <<text>>
    ELSE LET i == CHOOSE j \in 1..Len(text) :
                    /\ SubSeq(text, j, j) = sep
                    /\ \A k \in 1..(j - 1) : SubSeq(text, k, k) # sep
         IN  <<SubSeq(text, 1, i - 1)>> \o Split(SubSeq(text, i + 1, Len(text)), sep)

(***************************** clock and dates *****************************)
\* datetime.now(): the service starts at 2017-07-20 22:00 and tick counts hours
Now(t) ==
    [y |-> 2017, m |-> 7, d |-> 20 + ((22 + t) \div 24), h |-> (22 + t) % 24]

\* datetime.now().strftime("%Y%m%d%H")
StrftimeHour(n) ==
    Pad(Numeral(n.y), 4) \o Pad(Numeral(n.m), 2) \o Pad(Numeral(n.d), 2) \o Pad(Numeral(n.h), 2)

IsLeap(y) == (y % 4 = 0 /\ y % 100 # 0) \/ y % 400 = 0

DaysInMonth(y, m) ==
    CASE m \in {4, 6, 9, 11} -> 30
      [] m = 2 -> IF IsLeap(y) THEN 29 ELSE 28
      [] OTHER -> 31

NoDate == [ok |-> FALSE, y |-> 0, m |-> 0, d |-> 0]

\* the date of a day, a month and a year, when there is such a date
DateOf(d, m, y) ==
    IF y >= 1 /\ m \in 1..12 /\ d >= 1 /\ d <= DaysInMonth(y, m)
    THEN [ok |-> TRUE, y |-> y, m |-> m, d |-> d]
    ELSE NoDate

\* the date of the three parts of a text: %d and %m take one or two digits, %Y four
DateOfParts(parts) ==
    IF Len(parts) # 3 THEN NoDate
    ELSE IF Len(parts[1]) \notin {1, 2} \/ Len(parts[2]) \notin {1, 2} \/ Len(parts[3]) # 4
    THEN NoDate
    ELSE DateOf(NatOf(parts[1]), NatOf(parts[2]), NatOf(parts[3]))

\* datetime.strptime(value, "%d.%m.%Y")
Strptime(text) == DateOfParts(Split(text, "."))

\* date <= date
DateLeq(a, b) ==
    \/ a.y < b.y
    \/ a.y = b.y /\ a.m < b.m
    \/ a.y = b.y /\ a.m = b.m /\ a.d <= b.d

\* today - relativedelta(years=70)
SeventyYearsAgo(today) ==
    LET y == today.y - 70
        d == IF today.d > DaysInMonth(y, today.m) THEN DaysInMonth(y, today.m) ELSE today.d
    IN  [ok |-> TRUE, y |-> y, m |-> today.m, d |-> d]

(***************************** field validators ****************************)
Passed == [res |-> "ok", msg |-> ""]
Invalid(msg) == [res |-> "ValidationError", msg |-> msg]
Raised(exc) == [res |-> exc, msg |-> ""]

CharField_validate(value) ==
    IF value.ty # "str" THEN Invalid("Value should be a string") ELSE Passed

ArgumentsField_validate(value) ==
    IF value.ty # "dict" THEN Invalid("Value must be a dictionary (JSON object)") ELSE Passed

\* the check of an email's parts = value.split("@")
EmailParts(parts) ==
    IF Len(parts) # 2 \/ parts[1] = "" \/ parts[2] = ""
    THEN Invalid("Email must be in the format 'localpart@domainpart'")
    ELSE Passed

EmailField_validate(value) ==
    IF value.ty # "str" THEN CharField_validate(value) ELSE EmailParts(Split(value.s, "@"))

\* the checks of phone_num = str(value)
PhoneNum(phone_num) ==
    IF Len(phone_num) # 11 THEN Invalid("Phone must be contain exactly 11 digits")
    ELSE IF SubSeq(phone_num, 1, 1) # "7" THEN Invalid("Phone number must start with digit 7")
    ELSE Passed

PhoneField_validate(value) ==
    IF value.ty \notin {"str", "int", "bool"}
    THEN Invalid("Phone must be a string or an integer")
    ELSE PhoneNum(PyStr(value))

DateField_validate(value) ==
    IF value.ty # "str" THEN Invalid("Date must be a string")
    ELSE IF ~Strptime(value.s).ok
    THEN Invalid("Date must be in the format '%d.%m.%Y' (e.g., 'dd.mm.yyyy')")
    ELSE Passed

\* the age check that follows super().validate(value), whose outcome is r
BirthDayAge(r, value, today) ==
    IF r # Passed THEN r
    ELSE IF DateLeq(Strptime(value.s), SeventyYearsAgo(today))
    THEN Invalid("Age must be less than 70 years (birthday cannot be 70 years ago or earlier)")
    ELSE Passed

BirthDayField_validate(value, today) == BirthDayAge(DateField_validate(value), value, today)

\* the integer a float numeral equals, if any
FloatKey(parts) == IF Len(parts) = 2 /\ parts[2] = "0" THEN parts[1] ELSE "no key"

\* the key k of GENDERS with value == k (True == 1 and 1.0 == 1 in Python)
GenderKey(value) ==
    CASE value.ty = "int" -> value.s
      [] value.ty = "bool" -> IF value.s = "true" THEN "1" ELSE "0"
      [] value.ty = "float" -> FloatKey(Split(value.s, "."))
      [] OTHER -> "no key"

GenderField_validate(value) ==
    IF value.ty \in {"list", "dict"} THEN Raised("TypeError")   \* unhashable type
    ELSE IF GenderKey(value) \notin GENDERS
    THEN Invalid("Gender must be one of 0 (Unknown), 1 (Male), or 2 (Female)")
    ELSE Passed

ClientIDsField_validate(value) ==
    IF value.ty # "list" THEN Invalid("Client IDs must be a list")
    ELSE IF value.l = <<>> THEN Invalid("Client IDs list cannot be empty")
    ELSE IF \E i \in 1..Len(value.l) : value.l[i][1] \notin {"int", "bool"}
    THEN Invalid("All elements in Client IDs list must be integers")
    ELSE Passed

Field_validate(kind, value, today) ==
    CASE kind = "CharField" -> CharField_validate(value)
      [] kind = "ArgumentsField" -> ArgumentsField_validate(value)
      [] kind = "EmailField" -> EmailField_validate(value)
      [] kind = "PhoneField" -> PhoneField_validate(value)
      [] kind = "DateField" -> DateField_validate(value)
      [] kind = "BirthDayField" -> BirthDayField_validate(value, today)
      [] kind = "GenderField" -> GenderField_validate(value)
      [] OTHER -> ClientIDsField_validate(value)

(***************************** request schemas ****************************)
\* the Field attributes of each class, in the order of the class body
Fields(schema) ==
    CASE schema = "MethodRequest" -> <<"account", "login", "token", "arguments", "method">>
      [] schema = "OnlineScoreRequest" ->
            <<"first_name", "last_name", "email", "phone", "birthday", "gender">>
      [] OTHER -> <<"client_ids", "date">>

FieldNames(schema) == {Fields(schema)[i] : i \in 1..Len(Fields(schema))}

Decl(kind, required, nullable) == [kind |-> kind, required |-> required, nullable |-> nullable]

MethodRequest_fields(name) ==
    CASE name = "account" -> Decl("CharField", FALSE, TRUE)
      [] name = "login" -> Decl("CharField", TRUE, TRUE)
      [] name = "token" -> Decl("CharField", TRUE, TRUE)
      [] name = "arguments" -> Decl("ArgumentsField", TRUE, TRUE)
      [] OTHER -> Decl("CharField", TRUE, FALSE)

OnlineScoreRequest_fields(name) ==
    CASE name \in {"first_name", "last_name"} -> Decl("CharField", FALSE, TRUE)
      [] name = "email" -> Decl("EmailField", FALSE, TRUE)
      [] name = "phone" -> Decl("PhoneField", FALSE, TRUE)
      [] name = "birthday" -> Decl("BirthDayField", FALSE, TRUE)
      [] OTHER -> Decl("GenderField", FALSE, TRUE)

ClientsInterestsRequest_fields(name) ==
    CASE name = "client_ids" -> Decl("ClientIDsField", TRUE, FALSE)
      [] OTHER -> Decl("DateField", FALSE, TRUE)

FieldDecl(schema, name) ==
    CASE schema = "MethodRequest" -> MethodRequest_fields(name)
      [] schema = "OnlineScoreRequest" -> OnlineScoreRequest_fields(name)
      [] OTHER -> ClientsInterestsRequest_fields(name)

\* dict[key] = value on a dict kept as a sequence of <<key, value>> in insertion order
SetItem(items, key, value) ==
    IF \E i \in 1..Len(items) : items[i][1] = key
    THEN [i \in 1..Len(items) |-> IF items[i][1] = key THEN <<key, value>> ELSE items[i]]
    ELSE Append(items, <<key, value>>)

Keys(items) == {items[i][1] : i \in 1..Len(items)}

\* setattr(self, name, value)
SetAttr(attrs, name, value) ==
    [k \in DOMAIN attrs \cup {name} |-> IF k = name THEN value ELSE attrs[k]]

\* a schema instance: errors is self.errors, attrs the field entries of
\* self.__dict__, raised the exception that left the constructor (if any);
\* visited and post count the fields visited and the post_validate runs
NewInstance(schema) ==
    [schema |-> schema, raised |-> "", errors |-> <<>>, attrs |-> NoItems,
     visited |-> <<>>, post |-> 0]

\* the try block around field_instance.validate(value), whose outcome is r
Validated(self, name, value, r) ==
    CASE r.res = "ok" -> [self EXCEPT !.attrs = SetAttr(@, name, value)]
      [] r.res = "ValidationError" -> [self EXCEPT !.errors = SetItem(@, name, r.msg)]
      [] OTHER -> [self EXCEPT !.raised = r.res]

\* one turn of the loop over the declared fields, f being the field's declaration
VisitDeclared(self, data, name, f, today) ==
    IF name \notin DOMAIN data.d
    THEN IF f.required
         THEN [self EXCEPT !.errors = SetItem(@, name, "This field is requeired")]
         ELSE self
    ELSE IF data.d[name].ty = "null"
    THEN IF ~f.nullable
         THEN [self EXCEPT !.errors = SetItem(@, name, "This field cannot be null")]
         ELSE self
    ELSE Validated(self, name, data.d[name], Field_validate(f.kind, data.d[name], today))

VisitField(self, data, name, today) ==
    VisitDeclared([self EXCEPT !.visited = Append(@, name)], data, name,
                  FieldDecl(self.schema, name), today)

RECURSIVE VisitFields(_, _, _, _)
VisitFields(self, data, i, today) ==
    IF i > Len(Fields(self.schema)) \/ self.raised # "" THEN self
    ELSE VisitFields(VisitField(self, data, Fields(self.schema)[i], today), data, i + 1, today)

\* mutant: the third pair is taken across (gender, first_name)
OnlineScoreRequest_post_validate_crossed(self) ==
    LET pair_1 == "phone" \in DOMAIN self.attrs /\ "email" \in DOMAIN self.attrs
        pair_2 == "first_name" \in DOMAIN self.attrs /\ "last_name" \in DOMAIN self.attrs
        pair_3 == "gender" \in DOMAIN self.attrs /\ "first_name" \in DOMAIN self.attrs
    IN  IF ~(pair_1 \/ pair_2 \/ pair_3)
        THEN [self EXCEPT !.errors = SetItem(@, "arguments",
                "At least one pair is required: (phone, email), (first_name, last_name), or (birthday, gender).")]
        ELSE self

OnlineScoreRequest_post_validate(self) ==
    LET has_phone == "phone" \in DOMAIN self.attrs
        has_email == "email" \in DOMAIN self.attrs
        has_fname == "first_name" \in DOMAIN self.attrs
        has_lname == "last_name" \in DOMAIN self.attrs
        has_bday == "birthday" \in DOMAIN self.attrs
        has_gender == "gender" \in DOMAIN self.attrs
        pair_1 == has_phone /\ has_email
        pair_2 == has_fname /\ has_lname
        pair_3 == has_gender /\ has_bday
    IN  IF ~(pair_1 \/ pair_2 \/ pair_3)
        THEN [self EXCEPT !.errors = SetItem(@, "arguments",
                "At least one pair is required: (phone, email), (first_name, last_name), or (birthday, gender).")]
        ELSE self

post_validate(self) ==
    LET ran == [self EXCEPT !.post = @ + 1]
    IN  IF self.schema = "OnlineScoreRequest" THEN OnlineScoreRequest_post_validate(ran) ELSE ran

\* mutant: post_validate runs whatever the field pass recorded
AfterFields_unconditional(self) ==
    IF self.raised = "" THEN post_validate(self) ELSE self

\* the end of __init__: if not self.errors: self.post_validate()
AfterFields(self) ==
    IF self.raised = "" /\ self.errors = <<>> THEN post_validate(self) ELSE self

\* BaseRequest.__init__(self, data): data.get fails on anything but a dict
BaseRequest_init(schema, data, today) ==
    IF data.ty # "dict" THEN [NewInstance(schema) EXCEPT !.raised = "AttributeError"]
    ELSE AfterFields(VisitFields(NewInstance(schema), data, 1, today))

is_valid(self) == self.errors = <<>>

get_errors(self) == self.errors

\* getattr(self, name, None): the instance's own entry, else the class
\* attribute of that name, which is the Field object itself
ClassAttr(f) == FieldObject(f.required, f.nullable)

GetAttr(self, name) ==
    IF name \in DOMAIN self.attrs THEN self.attrs[name]
    ELSE IF name \in FieldNames(self.schema) THEN ClassAttr(FieldDecl(self.schema, name))
    ELSE JNull

RECURSIVE NonEmpty(_, _)
NonEmpty(self, i) ==
    IF i > Len(Fields(self.schema)) THEN <<>>
    ELSE LET name == Fields(self.schema)[i]
         IN  (IF /\ name \in DOMAIN self.attrs
                 /\ self.attrs[name].ty # "null"
                 /\ self.attrs[name] # JStr("")
                 /\ self.attrs[name] # JList(<<>>)
              THEN <<name>> ELSE <<>>) \o NonEmpty(self, i + 1)

get_non_empty_fields(self) == NonEmpty(self, 1)

is_admin(self) == GetAttr(self, "login") = JStr(ADMIN_LOGIN)

(***************************** authentication *****************************)
\* hashlib.sha512(text).hexdigest() and hashlib.md5(text).hexdigest(): one-to-one
\* on the texts of the model, and never one of its plain texts
Sha512Hex(text) == "sha512<" \o text \o ">"
Md5Hex(text) == "md5<" \o text \o ">"

\* a + b on Python values: defined on two strings only
PyConcat(a, b) ==
    IF a.ty = "str" /\ b.ty = "str" THEN JStr(a.s \o b.s)
    ELSE [ty |-> "TypeError", s |-> "", l |-> <<>>, d |-> NoItems]

\* digest == token, for the text the digest is taken of
DigestIs(text, token) ==
    IF text.ty = "TypeError" THEN [raised |-> "TypeError", ok |-> FALSE]
    ELSE [raised |-> "", ok |-> JStr(Sha512Hex(text.s)) = token]

\* check_auth once login, account and token are read off the request
Authenticate(req, login, account, token, now) ==
    IF login.ty = "null" \/ token.ty = "null" THEN [raised |-> "", ok |-> FALSE]
    ELSE IF is_admin(req)
    THEN DigestIs(JStr(StrftimeHour(now) \o ADMIN_SALT), token)
    ELSE DigestIs(PyConcat(PyConcat(IF account.ty # "null" THEN account ELSE JStr(""), login),
                           JStr(SALT)),
                  token)

check_auth(req, now) ==
    Authenticate(req, GetAttr(req, "login"), GetAttr(req, "account"), GetAttr(req, "token"), now)

(***************************** store adapter ******************************)
max_retries == 3
delay == 1
CACHE_TIMEOUT == 3600

Event(op, key, outcome) == [op |-> op, key |-> key, outcome |-> outcome]

\* one call of the redis client: once okLeft calls have passed it raises
\* while failsLeft > 0
BackendRaises(st) == st.okLeft = 0 /\ st.failsLeft > 0
AfterCall(st) ==
    IF st.okLeft > 0 THEN [st EXCEPT !.okLeft = @ - 1]
    ELSE IF st.failsLeft > 0 THEN [st EXCEPT !.failsLeft = @ - 1]
    ELSE st

\* self.redis.get(key) with decode_responses: the text, or None
RedisGet(st, key) == IF key \in DOMAIN st.kv THEN JStr(st.kv[key].v) ELSE JNull

\* self.redis.setex(key, timeout, value)
RedisSetex(st, key, timeout, text) ==
    [st EXCEPT !.kv = [k \in DOMAIN st.kv \cup {key} |->
                          IF k = key THEN [v |-> text, ex |-> timeout] ELSE st.kv[k]]]

Outcome(ret, raised, st, log) == [ret |-> ret, raised |-> raised, st |-> st, log |-> log]

\* mutant: the attempts follow one another without a pause
RECURSIVE retry_without_delay(_, _, _, _)
retry_without_delay(st, key, retries, log) ==
    IF ~(retries < max_retries) THEN Outcome(JNull, "", st, log)
    ELSE IF ~BackendRaises(st)
    THEN Outcome(RedisGet(st, key), "", AfterCall(st), Append(log, Event("get", key, "ok")))
    ELSE IF st.failKind # "ConnectionError" \/ retries + 1 = max_retries
    THEN Outcome(JNull, st.failKind, AfterCall(st), Append(log, Event("get", key, st.failKind)))
    ELSE retry_without_delay(AfterCall(st), key, retries + 1,
                             Append(log, Event("get", key, st.failKind)))

\* Store.get under @retry_on_connection_error(max_retries=3)
RECURSIVE retry_on_connection_error(_, _, _, _)
retry_on_connection_error(st, key, retries, log) ==
    IF ~(retries < max_retries) THEN Outcome(JNull, "", st, log)
    ELSE IF ~BackendRaises(st)
    THEN Outcome(RedisGet(st, key), "", AfterCall(st), Append(log, Event("get", key, "ok")))
    ELSE LET failed == Append(log, Event("get", key, st.failKind))
         IN  IF st.failKind # "ConnectionError"
             THEN Outcome(JNull, st.failKind, AfterCall(st), failed)
             ELSE IF retries + 1 = max_retries
             THEN Outcome(JNull, st.failKind, AfterCall(st), failed)
             ELSE retry_on_connection_error(AfterCall(st), key, retries + 1,
                                            Append(failed, Event("sleep", "", Numeral(delay))))

Store_get(st, key) == retry_on_connection_error(st, key, 0, <<>>)

\* mutant: a failed cache read is tried a second time
Store_cache_get_retried(st, key) ==
    IF BackendRaises(st)
    THEN Outcome(JNull, "", AfterCall(AfterCall(st)),
                 <<Event("cache_get", key, st.failKind), Event("cache_get", key, st.failKind)>>)
    ELSE Outcome(RedisGet(st, key), "", AfterCall(st), <<Event("cache_get", key, "ok")>>)

Store_cache_get(st, key) ==
    IF BackendRaises(st)
    THEN Outcome(JNull, "", AfterCall(st), <<Event("cache_get", key, st.failKind)>>)
    ELSE Outcome(RedisGet(st, key), "", AfterCall(st), <<Event("cache_get", key, "ok")>>)

Store_cache_set(st, key, text, timeout) ==
    IF BackendRaises(st)
    THEN Outcome(JNull, "", AfterCall(st), <<Event("cache_set", key, st.failKind)>>)
    ELSE Outcome(JNull, "", RedisSetex(AfterCall(st), key, timeout, text),
                 <<Event("cache_set", key, "ok")>>)

(***************************** scoring *************************************)
\* repr of a float held in tenths
FloatRepr(tenths) == Numeral(tenths \div 10) \o "." \o Numeral(tenths % 10)

FloatOfParts(text, parts) ==
    IF \E i \in 1..Len(parts) : NatOf(parts[i]) < 0 THEN [ok |-> FALSE, v |-> JNull]
    ELSE IF Len(parts) = 1 THEN [ok |-> TRUE, v |-> JFloat(text \o ".0")]
    ELSE IF Len(parts) = 2 THEN [ok |-> TRUE, v |-> JFloat(text)]
    ELSE [ok |-> FALSE, v |-> JNull]

\* float(text)
PyFloat(text) == FloatOfParts(text, Split(text, "."))

\* str(x) if x else ""
StrOrEmpty(v) == IF Truthy(v) THEN PyStr(v) ELSE ""

\* birthday.strftime("%Y%m%d") if isinstance(birthday, datetime) else ""
BirthdayPart(v) ==
    IF v.ty = "datetime"
    THEN Pad(Numeral(v.d.y), 4) \o Pad(Numeral(v.d.m), 2) \o Pad(Numeral(v.d.d), 2)
    ELSE ""

ScoreKey(phone, birthday, first_name, last_name) ==
    "uid:" \o Md5Hex(StrOrEmpty(first_name) \o StrOrEmpty(last_name) \o StrOrEmpty(phone)
                     \o BirthdayPart(birthday))

\* mutant: gender is tested for truth, so code 0 does not count
ComputeScore_gender_truthy(phone, email, birthday, gender, first_name, last_name) ==
    (IF Truthy(phone) THEN 15 ELSE 0)
    + (IF Truthy(email) THEN 15 ELSE 0)
    + (IF Truthy(birthday) /\ Truthy(gender) THEN 15 ELSE 0)
    + (IF Truthy(first_name) /\ Truthy(last_name) THEN 5 ELSE 0)

\* the score computed on a cache miss, in tenths
ComputeScore(phone, email, birthday, gender, first_name, last_name) ==
    (IF Truthy(phone) THEN 15 ELSE 0)
    + (IF Truthy(email) THEN 15 ELSE 0)
    + (IF Truthy(birthday) /\ gender.ty # "null" THEN 15 ELSE 0)
    + (IF Truthy(first_name) /\ Truthy(last_name) THEN 5 ELSE 0)

\* return float(score), for the cached text read by got
CacheHit(got, parsed) ==
    IF parsed.ok THEN Outcome(parsed.v, "", got.st, got.log)
    ELSE Outcome(JNull, "ValueError", got.st, got.log)

\* the computed score is returned after the cache_set put
CacheMiss(got, score, put) == Outcome(JFloat(score), "", put.st, got.log \o put.log)

\* mutant: the cached value is not used
ScoreFrom_recomputing(got, key, score) ==
    CacheMiss(got, score, Store_cache_set(got.st, key, score, CACHE_TIMEOUT))

\* get_score after the cache read got; score is the text of the computed score
ScoreFrom(got, key, score) ==
    IF got.ret.ty # "null" THEN CacheHit(got, PyFloat(got.ret.s))
    ELSE CacheMiss(got, score, Store_cache_set(got.st, key, score, CACHE_TIMEOUT))

ScoreWithKey(st, key, score) == ScoreFrom(Store_cache_get(st, key), key, score)

get_score(st, phone, email, birthday, gender, first_name, last_name) ==
    ScoreWithKey(st, ScoreKey(phone, birthday, first_name, last_name),
                 FloatRepr(ComputeScore(phone, email, birthday, gender, first_name, last_name)))

(***************************** interests ***********************************)
RECURSIVE Strip(_)
Strip(text) ==
    IF text = "" THEN text
    ELSE IF SubSeq(text, 1, 1) = " " THEN Strip(SubSeq(text, 2, Len(text)))
    ELSE IF SubSeq(text, Len(text), Len(text)) = " " THEN Strip(SubSeq(text, 1, Len(text) - 1))
    ELSE text

NoJson == [ok |-> FALSE, v |-> JNull]

\* a text between double quotes, given its parts around the quotes
JsonQuoted(parts) ==
    IF Len(parts) = 3 /\ parts[1] = "" /\ parts[3] = ""
    THEN [ok |-> TRUE, v |-> JStr(parts[2])]
    ELSE NoJson

\* a natural number without a leading zero
JsonNumber(text, n) ==
    IF n >= 0 /\ (Len(text) = 1 \/ SubSeq(text, 1, 1) # "0")
    THEN [ok |-> TRUE, v |-> JInt(text)]
    ELSE NoJson

\* json.loads on a scalar: null, true, false, a natural number, a quoted text
JsonScalar(text) ==
    CASE text = "null" -> [ok |-> TRUE, v |-> JNull]
      [] text = "true" -> [ok |-> TRUE, v |-> JBool(TRUE)]
      [] text = "false" -> [ok |-> TRUE, v |-> JBool(FALSE)]
      [] text # "" /\ DigitValue(SubSeq(text, 1, 1)) >= 0 -> JsonNumber(text, NatOf(text))
      [] OTHER -> JsonQuoted(Split(text, "\""))

\* the scalars of the texts between commas
JsonScalars(items) == [i \in 1..Len(items) |-> JsonScalar(Strip(items[i]))]

JsonArray(scalars) ==
    IF \E i \in 1..Len(scalars) : ~scalars[i].ok THEN NoJson
    ELSE [ok |-> TRUE, v |-> JList([i \in 1..Len(scalars) |-> <<scalars[i].v.ty, scalars[i].v.s>>])]

\* an object of "key": scalar members, given the scalars around each colon
JsonObject(members) ==
    IF \A i \in 1..Len(members) :
          /\ Len(members[i]) = 2
          /\ members[i][1].ok
          /\ members[i][1].v.ty = "str"
          /\ members[i][2].ok
    THEN [ok |-> TRUE, v |-> JDict(NoItems)]
    ELSE NoJson

JsonMembers(items) == [i \in 1..Len(items) |-> JsonScalars(Split(items[i], ":"))]

\* the value of a text between brackets or braces, or of a scalar
JsonOf(text, n, inner) ==
    IF n >= 2 /\ SubSeq(text, 1, 1) = "[" /\ SubSeq(text, n, n) = "]"
    THEN IF inner = "" THEN [ok |-> TRUE, v |-> JList(<<>>)]
         ELSE JsonArray(JsonScalars(Split(inner, ",")))
    ELSE IF n >= 2 /\ SubSeq(text, 1, 1) = "{" /\ SubSeq(text, n, n) = "}"
    THEN IF inner = "" THEN [ok |-> TRUE, v |-> JDict(NoItems)]
         ELSE JsonObject(JsonMembers(Split(inner, ",")))
    ELSE JsonScalar(text)

JsonText(text) == JsonOf(text, Len(text), Strip(SubSeq(text, 2, Len(text) - 1)))

\* json.loads on the stored texts: scalars, arrays of scalars, objects of scalars
JsonLoads(raw) == JsonText(Strip(raw))

\* str(i) of a list element <<ty, s>>
ElemStr(e) == PyStr([ty |-> e[1], s |-> e[2]])

\* mutant: the elements are returned as they were stored
InterestsOf_unconverted(interests) ==
    IF ~interests.ok THEN JList(<<>>)
    ELSE IF interests.v.ty # "list" THEN JList(<<>>)
    ELSE interests.v

\* the list returned for the parsed value of the stored text
InterestsOf(interests) ==
    IF ~interests.ok THEN JList(<<>>)
    ELSE IF interests.v.ty # "list" THEN JList(<<>>)
    ELSE JList([i \in 1..Len(interests.v.l) |-> <<"str", ElemStr(interests.v.l[i])>>])

\* get_interests after the read r = store.get(...)
InterestsFrom(got) ==
    IF got.raised # "" THEN got
    ELSE IF got.ret.ty = "null" THEN Outcome(JList(<<>>), "", got.st, got.log)
    ELSE Outcome(InterestsOf(JsonLoads(got.ret.s)), "", got.st, got.log)

get_interests(st, cid) == InterestsFrom(Store_get(st, "i:" \o ElemStr(cid)))

(***************************** method dispatcher ***************************)
NoPayload == [kind |-> "none", text |-> "", score |-> JNull, map |-> NoItems]
Text(msg) == [NoPayload EXCEPT !.kind = "text", !.text = msg]
Score(value) == [NoPayload EXCEPT !.kind = "score", !.score = value]
Interests(map) == [NoPayload EXCEPT !.kind = "interests", !.map = map]
Plain(value) == [NoPayload EXCEPT !.kind = "value", !.score = value]

Reply(response, code, c, st, log) ==
    [raised |-> "", response |-> response, code |-> code, ctx |-> c, st |-> st, log |-> log]

Raise(exc, c, st, log) ==
    [raised |-> exc, response |-> NoPayload, code |-> 0, ctx |-> c, st |-> st, log |-> log]

\* mutant: the last recorded error is the one reported
LastErrorInField(errors) ==
    "Validation Error in field '" \o errors[Len(errors)][1] \o "': " \o errors[Len(errors)][2]

FirstErrorInField(errors) ==
    "Validation Error in field '" \o errors[1][1] \o "': " \o errors[1][2]

FirstErrorInArguments(method_name, errors) ==
    "Validation Error in arguments for '" \o method_name \o "': Field '"
        \o errors[1][1] \o "' - " \o errors[1][2]

\* ctx[key] = value
SetCtx(c, key, value) == [k \in DOMAIN c \cup {key} |-> IF k = key THEN value ELSE c[k]]

\* the loop over interest_req.client_ids; acc is the interests dict so far
RECURSIVE CollectInterests(_, _, _, _, _)
RECURSIVE Collected(_, _, _, _, _)
CollectInterests(ids, i, acc, st, log) ==
    IF i > Len(ids) THEN Outcome(acc, "", st, log)
    ELSE Collected(ids, i, acc, log, get_interests(st, ids[i]))

\* interests[str(cid)] = got, for the i-th cid
Collected(ids, i, acc, log, got) ==
    IF got.raised # "" THEN Outcome(acc, got.raised, got.st, log \o got.log)
    ELSE CollectInterests(ids, i + 1, SetAttr(acc, ElemStr(ids[i]), got.ret),
                          got.st, log \o got.log)

\* the response of online_score, got being the outcome of get_score
ScoreReply(c, got) ==
    IF got.raised # "" THEN Raise(got.raised, c, got.st, got.log)
    ELSE Reply(Score(got.ret), OK, c, got.st, got.log)

\* mutant: the admin case is not singled out
ScoreBranch_no_admin(method_req, score_req, c, st) ==
    ScoreReply(c, get_score(st, GetAttr(score_req, "phone"), GetAttr(score_req, "email"),
                            GetAttr(score_req, "birthday"), GetAttr(score_req, "gender"),
                            GetAttr(score_req, "first_name"), GetAttr(score_req, "last_name")))

\* the online_score branch once score_req is validated; c is the context holding "has"
ScoreBranch(method_req, score_req, c, st) ==
    IF is_admin(method_req) THEN Reply(Score(JInt("42")), OK, c, st, <<>>)
    ELSE ScoreReply(c, get_score(st, GetAttr(score_req, "phone"), GetAttr(score_req, "email"),
                                 GetAttr(score_req, "birthday"), GetAttr(score_req, "gender"),
                                 GetAttr(score_req, "first_name"),
                                 GetAttr(score_req, "last_name")))

\* the online_score branch, score_req being OnlineScoreRequest(arguments)
OnlineScore(method_req, score_req, c, st) ==
    IF score_req.raised # "" THEN Raise(score_req.raised, c, st, <<>>)
    ELSE IF ~is_valid(score_req)
    THEN Reply(Text(FirstErrorInArguments("online_score", get_errors(score_req))),
               INVALID_REQUEST, c, st, <<>>)
    ELSE ScoreBranch(method_req, score_req,
                     SetCtx(c, "has", get_non_empty_fields(score_req)), st)

\* mutant: the admin's response is kept instead of being assigned over
InterestsReply_keep_admin(response, c, got) ==
    IF got.raised # "" THEN Raise(got.raised, c, got.st, got.log)
    ELSE IF response.kind # "none" THEN Reply(response, OK, c, got.st, got.log)
    ELSE Reply(Interests(got.ret), OK, c, got.st, got.log)

\* the response of clients_interests: response is what the admin case assigned,
\* got the outcome of the loop, whose dict is assigned over it
InterestsReply(response, c, got) ==
    IF got.raised # "" THEN Raise(got.raised, c, got.st, got.log)
    ELSE Reply(Interests(got.ret), OK, c, got.st, got.log)

\* the clients_interests branch once interest_req is validated
InterestsBranch(method_req, ids, c, st) ==
    InterestsReply(IF is_admin(method_req) THEN Score(JInt("42")) ELSE NoPayload,
                   SetCtx(c, "nclients", Len(ids)),
                   CollectInterests(ids, 1, NoItems, st, <<>>))

\* the clients_interests branch, interest_req being ClientsInterestsRequest(arguments)
ClientsInterests(method_req, interest_req, c, st) ==
    IF interest_req.raised # "" THEN Raise(interest_req.raised, c, st, <<>>)
    ELSE IF ~is_valid(interest_req)
    THEN Reply(Text(FirstErrorInArguments("clients_interests", get_errors(interest_req))),
               INVALID_REQUEST, c, st, <<>>)
    ELSE InterestsBranch(method_req, GetAttr(interest_req, "client_ids").l, c, st)

\* mutant: every method but clients_interests is taken for online_score
Dispatch_default_score(method_req, method_name, arguments, c, st, now) ==
    IF method_name = JStr("clients_interests")
    THEN ClientsInterests(method_req,
                          BaseRequest_init("ClientsInterestsRequest", arguments, now), c, st)
    ELSE OnlineScore(method_req, BaseRequest_init("OnlineScoreRequest", arguments, now), c, st)

\* step 3 of method_handler: the branch on the method name
Dispatch(method_req, method_name, arguments, c, st, now) ==
    IF method_name = JStr("online_score")
    THEN OnlineScore(method_req, BaseRequest_init("OnlineScoreRequest", arguments, now), c, st)
    ELSE IF method_name = JStr("clients_interests")
    THEN ClientsInterests(method_req,
                          BaseRequest_init("ClientsInterestsRequest", arguments, now), c, st)
    ELSE Reply(Text("Method not found"), NOT_FOUND, c, st, <<>>)

\* mutant: the method name is looked at before the outcome of check_auth
Authorised_method_first(method_req, auth, c, st, now) ==
    IF GetAttr(method_req, "method") \notin {JStr("online_score"), JStr("clients_interests")}
    THEN Reply(Text("Method not found"), NOT_FOUND, c, st, <<>>)
    ELSE IF auth.raised # "" THEN Raise(auth.raised, c, st, <<>>)
    ELSE IF ~auth.ok THEN Reply(Text(ERRORS[FORBIDDEN]), FORBIDDEN, c, st, <<>>)
    ELSE Dispatch(method_req, GetAttr(method_req, "method"), GetAttr(method_req, "arguments"),
                  c, st, now)

\* step 2 of method_handler, auth being the outcome of check_auth
Authorised(method_req, auth, c, st, now) ==
    IF auth.raised # "" THEN Raise(auth.raised, c, st, <<>>)
    ELSE IF ~auth.ok THEN Reply(Text(ERRORS[FORBIDDEN]), FORBIDDEN, c, st, <<>>)
    ELSE Dispatch(method_req, GetAttr(method_req, "method"), GetAttr(method_req, "arguments"),
                  c, st, now)

\* step 1 of method_handler, method_req being MethodRequest(request.get("body"))
Validated_request(method_req, c, st, now) ==
    IF method_req.raised # "" THEN Raise(method_req.raised, c, st, <<>>)
    ELSE IF ~is_valid(method_req)
    THEN Reply(Text(FirstErrorInField(get_errors(method_req))), INVALID_REQUEST, c, st, <<>>)
    ELSE Authorised(method_req, check_auth(method_req, now), c, st, now)

\* method_handler(request, ctx, store), with request = {"body": body, ...}
method_handler(body, c, st, now) ==
    Validated_request(BaseRequest_init("MethodRequest", body, now), c, st, now)

(***************************** inputs **************************************)
Absent == [ty |-> "absent", s |-> "", l |-> <<>>, d |-> NoItems]

\* the dict holding the chosen value of every key whose choice is not Absent
DictOf(choice) ==
    JDict([k \in {n \in DOMAIN choice : choice[n] # Absent} |-> choice[k]])

AdminToken(t) == Sha512Hex(StrftimeHour(Now(t)) \o ADMIN_SALT)
UserToken(account, login) == Sha512Hex(account \o login \o SALT)

GoodPhone == JStr("79175002040")
GoodEmail == JStr("stupnikov@otus.ru")
Young == JStr("20.07.2017")
Younger == JStr("01.01.2000")
SeventyToday == JStr("20.07.1947")
NotADate == JStr("31.02.2000")

\* arguments: the named keys with the given values
Args(f) == JDict(f)

ValidScoreArgs ==
    { Args("phone" :> GoodPhone @@ "email" :> GoodEmail),
      Args("phone" :> JInt("79175002040") @@ "email" :> GoodEmail),
      Args("first_name" :> JStr("A") @@ "last_name" :> JStr("B")),
      Args("birthday" :> Young @@ "gender" :> JInt("0")),
      Args("birthday" :> Younger @@ "gender" :> JInt("1")),
      Args("phone" :> GoodPhone @@ "email" :> GoodEmail @@ "birthday" :> Young
           @@ "gender" :> JInt("2")),
      Args("phone" :> GoodPhone @@ "email" :> GoodEmail @@ "birthday" :> Younger
           @@ "gender" :> JInt("2") @@ "first_name" :> JNull) }

OddGenders ==
    { JInt("3"), JStr("1"), JBool(TRUE), JFloat("1.0"), JFloat("1.5"), JList(<<>>),
      JDict(NoItems), JNull }

OtherScoreArgs ==
    { Args(NoItems),
      Args("first_name" :> JStr("A")),
      Args("phone" :> JStr("89175002040") @@ "email" :> GoodEmail),
      Args("phone" :> GoodPhone @@ "email" :> JStr("stupnikov@")),
      Args("phone" :> JStr("7917500") @@ "email" :> JStr("otus.ru")),
      Args("phone" :> JNull @@ "email" :> GoodEmail),
      Args("birthday" :> SeventyToday @@ "gender" :> JInt("1")),
      Args("birthday" :> NotADate @@ "gender" :> JInt("1")) }
    \cup { Args("birthday" :> Young @@ "gender" :> g) : g \in OddGenders }

InterestsArgs ==
    { Args("client_ids" :> JList(<< <<"int", "1">>, <<"int", "2">> >>) @@ "date" :> Young),
      Args("client_ids" :> JList(<< <<"int", "3">>, <<"int", "4">>, <<"int", "5">> >>)),
      Args("client_ids" :> JList(<< <<"bool", "true">>, <<"int", "1">>, <<"int", "1">> >>)
           @@ "date" :> JNull),
      Args("client_ids" :> JList(<< <<"int", "1">> >>) @@ "date" :> NotADate),
      Args("client_ids" :> JList(<<>>)),
      Args("client_ids" :> JList(<< <<"int", "1">>, <<"str", "2">> >>)),
      Args("client_ids" :> JStr("1,2")),
      Args("client_ids" :> JNull),
      Args("date" :> Young) }

AllArguments ==
    ValidScoreArgs \cup OtherScoreArgs \cup InterestsArgs \cup {Absent, JNull, JList(<<>>)}

Envelope(account, login, token, arguments, method) ==
    DictOf([account |-> account, login |-> login, token |-> token,
            arguments |-> arguments, method |-> method])

Tokens ==
    { JStr(AdminToken(t)) : t \in 0..MaxTick }
    \cup { JStr(UserToken("horns", "h&f")), JStr(UserToken("", "h&f")),
           JStr(UserToken("", "admin")) }

\* envelopes of every shape, around well-formed online_score arguments
ShapeBodies ==
    { Envelope(a, l, t, Args("phone" :> GoodPhone @@ "email" :> GoodEmail), m) :
        a \in {Absent, JStr("horns")},
        l \in {Absent, JNull, JStr(ADMIN_LOGIN), JStr("h&f"), JInt("7")},
        t \in {Absent, JNull} \cup Tokens,
        m \in {Absent, JNull, JStr("online_score"), JStr("clients_interests"),
               JStr("ping"), JInt("7")} }

\* account, login and token that belong together, or nearly
Credentials ==
    { <<JStr("horns"), JStr("h&f"), JStr(UserToken("horns", "h&f"))>>,
      <<JNull, JStr("h&f"), JStr(UserToken("", "h&f"))>>,
      <<JStr("horns"), JStr("h&f"), JStr(UserToken("", "h&f"))>>,
      <<JStr("horns"), JStr("h&f"), JNull>>,
      <<JStr(""), JStr("h&f"), JStr(UserToken("", "h&f"))>> }
    \cup { <<Absent, JStr(ADMIN_LOGIN), JStr(AdminToken(t))>> : t \in 0..MaxTick }

\* arguments of every shape, behind those credentials
ArgumentBodies ==
    { Envelope(c[1], c[2], c[3], a, m) :
        c \in Credentials, a \in AllArguments,
        m \in {JStr("online_score"), JStr("clients_interests"), JStr("ping")} }

Bodies == ShapeBodies \cup ArgumentBodies

(***************************** state machine *******************************)
\* what the interests loader left in the keyspace (no expiry)
InterestsDB ==
    "i:1" :> [v |-> "[\"cars\", \"pets\"]", ex |-> 0]
    @@ "i:2" :> [v |-> "[1, 2]", ex |-> 0]
    @@ "i:3" :> [v |-> "{\"a\": 1}", ex |-> 0]
    @@ "i:6" :> [v |-> "[true, null, \"x\", 7]", ex |-> 0]
    @@ "i:5" :> [v |-> "cars, pets", ex |-> 0]

CtxInit == "request_id" :> "rid"

NoResult == [raised |-> "", response |-> NoPayload, code |-> 0]

IdleInst == [raw |-> JNull, obj |-> NewInstance("none"), at |-> 0]

\* no get_score call is remembered; fresh says that the cache has neither
\* failed nor expired an entry since the remembered call
NoCall == [args |-> <<>>, ret |-> JNull, wrote |-> FALSE, fresh |-> FALSE]
Stale(call) == [call EXCEPT !.fresh = FALSE]

\* nothing was written to the client
NoReply == [post |-> <<>>, code |-> 0, body |-> NoItems, invoked |-> FALSE]

Init ==
    /\ tick = 0
    /\ kv = InterestsDB
    /\ failsLeft = 0
    /\ failKind = "ConnectionError"
    /\ okLeft = 0
    /\ pc = "idle"
    /\ request = JNull
    /\ result = NoResult
    /\ ctx = CtxInit
    /\ calls = <<>>
    /\ inst = IdleInst
    /\ kept = NoCall
    /\ reply = NoReply

StoreState == [kv |-> kv, failsLeft |-> failsLeft, failKind |-> failKind, okLeft |-> okLeft]

\* the call returns or raises r: the caller sees the result, the context and the store
Returned(body, r) ==
    /\ request' = body
    /\ result' = [raised |-> r.raised, response |-> r.response, code |-> r.code]
    /\ ctx' = r.ctx
    /\ calls' = r.log
    /\ kv' = r.st.kv
    /\ failsLeft' = r.st.failsLeft
    /\ okLeft' = r.st.okLeft

\* one call of method_handler({"body": body}, ctx, store)
CallMethodHandler ==
    /\ pc = "idle"
    /\ \E body \in Bodies : Returned(body, method_handler(body, CtxInit, StoreState, Now(tick)))
    /\ pc' = "returned"
    /\ UNCHANGED <<tick, failKind, inst, kept, reply>>

\* the caller drops the request, its result and its context
Discard ==
    /\ pc = "returned"
    /\ pc' = "idle"
    /\ request' = JNull
    /\ result' = NoResult
    /\ ctx' = CtxInit
    /\ calls' = <<>>
    /\ reply' = NoReply
    /\ UNCHANGED <<tick, kv, failsLeft, failKind, okLeft, inst, kept>>

\* an hour passes: every key set with an expiry of at most an hour is gone
Tick ==
    /\ pc = "idle"
    /\ tick < MaxTick
    /\ tick' = tick + 1
    /\ kv' = [k \in {x \in DOMAIN kv : kv[x].ex = 0} |-> kv[k]]
    /\ kept' = Stale(kept)
    /\ UNCHANGED <<failsLeft, failKind, okLeft, pc, request, result, ctx, calls, inst, reply>>

\* a key set with an expiry runs out
Expire ==
    /\ pc = "idle"
    /\ \E key \in {x \in DOMAIN kv : kv[x].ex > 0} :
        kv' = [k \in DOMAIN kv \ {key} |-> kv[k]]
    /\ kept' = Stale(kept)
    /\ UNCHANGED <<tick, failsLeft, failKind, okLeft, pc, request, result, ctx, calls, inst, reply>>

\* the backend goes away for the next n calls, or comes back
Backend ==
    /\ pc = "idle"
    /\ \E n \in 0..MaxFails, kind \in {"ConnectionError", "RedisError"} :
        /\ n # failsLeft \/ (n > 0 /\ kind # failKind)
        /\ n = 0 => kind = "ConnectionError"
        /\ failsLeft' = n
        /\ failKind' = kind
    /\ okLeft' = 0
    /\ kept' = Stale(kept)
    /\ UNCHANGED <<tick, kv, pc, request, result, ctx, calls, inst, reply>>

\* the backend serves one more call and then goes away for n calls
BackendLater ==
    /\ pc = "idle"
    /\ okLeft = 0
    /\ \E n \in 1..MaxFails, kind \in {"ConnectionError", "RedisError"} :
        /\ failsLeft' = n
        /\ failKind' = kind
    /\ okLeft' = 1
    /\ kept' = Stale(kept)
    /\ UNCHANGED <<tick, kv, pc, request, result, ctx, calls, inst, reply>>

Next == CallMethodHandler \/ Discard \/ Tick \/ Expire \/ Backend

Spec == Init /\ [][Next]_vars

(***************************** transport ***********************************)
\* path.strip("/")
RECURSIVE StripSlashes(_)
StripSlashes(path) ==
    IF path = "" THEN path
    ELSE IF SubSeq(path, 1, 1) = "/" THEN StripSlashes(SubSeq(path, 2, Len(path)))
    ELSE IF SubSeq(path, Len(path), Len(path)) = "/"
    THEN StripSlashes(SubSeq(path, 1, Len(path) - 1))
    ELSE path

\* a POST: the Content-Length header ("" when there is none), the body, a raw
\* text or an object standing for its own serialisation, and the path
Post(header, data, path) == [header |-> header, data |-> data, path |-> path]
RawBody(text) == [ty |-> "raw", s |-> text, l |-> <<>>, d |-> NoItems]

\* json.loads(data_string)
Loads(data) == IF data.ty = "raw" THEN JsonLoads(data.s) ELSE [ok |-> TRUE, v |-> data]

\* request_body and code once the body is parsed
Loaded(parsed) ==
    IF parsed.ok THEN [request_body |-> parsed.v, code |-> OK]
    ELSE [request_body |-> JNull, code |-> BAD_REQUEST]

\* the first try block of do_POST
ReadBody(post) ==
    IF post.header = "" THEN [request_body |-> JNull, code |-> BAD_REQUEST]
    ELSE IF NatOf(post.header) <= 0 THEN [request_body |-> JNull, code |-> BAD_REQUEST]
    ELSE Loaded(Loads(post.data))

\* r, the dict written to the client
Written(response, code) ==
    IF code \notin DOMAIN ERRORS THEN [key |-> "response", payload |-> response, code |-> code]
    ELSE [key |-> "error",
          payload |-> Text(IF response.kind = "text" THEN response.text ELSE ERRORS[code]),
          code |-> code]

\* send_response(code), context.update(r) and wfile.write(json.dumps(r));
\* h is what the routed handler returned or raised
Sent(r, invoked, passed, h) ==
    [code |-> r.code, body |-> r, invoked |-> invoked, passed |-> passed,
     ctx |-> SetCtx(SetCtx(h.ctx, r.key, r.payload), "code", r.code), h |-> h]

\* mutant: the text of the exception is sent to the client
Routed_leaking(passed, h) ==
    IF h.raised # "" THEN Sent(Written(Text(h.raised), INTERNAL_ERROR), TRUE, passed, h)
    ELSE Sent(Written(h.response, h.code), TRUE, passed, h)

\* the try block around self.router[path](...)
Routed(passed, h) ==
    IF h.raised # "" THEN Sent(Written(Text("Internal Server Error"), INTERNAL_ERROR), TRUE, passed, h)
    ELSE Sent(Written(h.response, h.code), TRUE, passed, h)

\* the handler is not called: response is still {}
NotRouted(code, c, st) ==
    Sent(Written(Interests(NoItems), code), FALSE, JNull, Reply(NoPayload, 0, c, st, <<>>))

AfterRead(read, path, c, st, now) ==
    IF read.request_body.ty # "null" /\ read.code = OK
    THEN IF StripSlashes(path) \in {"method"}
         THEN Routed(read.request_body, method_handler(read.request_body, c, st, now))
         ELSE NotRouted(NOT_FOUND, c, st)
    ELSE NotRouted(read.code, c, st)

do_POST(post, c, st, now) == AfterRead(ReadBody(post), post.path, c, st, now)

\* bodies that are not JSON objects, or not JSON
OddBodies ==
    { RawBody(text) : text \in {"null", "5", "0", "[]", "[1, 2]", "\"x\"", "true", "{bad", " "} }

\* the admin's requests, of every method and with arguments of every shape
AdminBodies ==
    { Envelope(Absent, JStr(ADMIN_LOGIN), JStr(AdminToken(t)), a, m) :
        t \in 0..MaxTick, a \in AllArguments,
        m \in {JStr("online_score"), JStr("clients_interests"), JStr("ping")} }

Posts ==
    { Post("7", data, "/method") : data \in AdminBodies \cup ShapeBodies \cup OddBodies }
    \cup { Post(header, data, path) :
             header \in {"", "0", "abc", "7"},
             data \in OddBodies \cup {Envelope(Absent, JStr(ADMIN_LOGIN), JStr(AdminToken(0)),
                                              Args("client_ids" :> JList(<< <<"int", "1">> >>)),
                                              JStr("clients_interests"))},
             path \in {"/method", "/method/", "/other"} }

\* the transport answered: the caller sees what was written, the handler's
\* outcome if it was called, the context and the store
Answered(post, p) ==
    /\ reply' = [post |-> post, code |-> p.code, body |-> p.body, invoked |-> p.invoked]
    /\ request' = p.passed
    /\ result' = [raised |-> p.h.raised, response |-> p.h.response, code |-> p.h.code]
    /\ ctx' = p.ctx
    /\ calls' = p.h.log
    /\ kv' = p.h.st.kv
    /\ failsLeft' = p.h.st.failsLeft
    /\ okLeft' = p.h.st.okLeft

\* one POST served by MainHTTPHandler.do_POST
DoPost ==
    /\ pc = "idle"
    /\ \E post \in Posts : Answered(post, do_POST(post, CtxInit, StoreState, Now(tick)))
    /\ pc' = "posted"
    /\ UNCHANGED <<tick, failKind, inst, kept>>

\* the connection is closed and its request forgotten
Close ==
    /\ pc = "posted"
    /\ pc' = "idle"
    /\ request' = JNull
    /\ result' = NoResult
    /\ ctx' = CtxInit
    /\ calls' = <<>>
    /\ reply' = NoReply
    /\ UNCHANGED <<tick, kv, failsLeft, failKind, okLeft, inst, kept>>

NextHttp == DoPost \/ Close \/ Tick \/ Expire \/ Backend \/ BackendLater

SpecHttp == Init /\ [][NextHttp]_vars

(***************************** direct calls ********************************)
\* a datetime.datetime of that day
DateTime(y, m, d) ==
    [ty |-> "datetime", s |-> "", l |-> <<>>, d |-> [y |-> y, m |-> m, d |-> d]]

\* <<phone, email, birthday, gender, first_name, last_name>>
ScoreInputs ==
    { <<GoodPhone, GoodEmail, JNull, JNull, JNull, JNull>>,
      <<GoodPhone, JNull, JNull, JNull, JNull, JNull>>,
      <<GoodPhone, GoodEmail, DateTime(2000, 1, 1), JInt("1"), JNull, JNull>>,
      <<GoodPhone, GoodEmail, DateTime(2000, 1, 1), JNull, JNull, JNull>>,
      <<GoodPhone, GoodEmail, DateTime(2017, 7, 20), JInt("0"), JNull, JNull>>,
      <<JNull, JNull, JNull, JNull, JStr("A"), JStr("B")>> }

\* the call returns or raises r: the caller sees the value, the calls made and the store
Got(args, r) ==
    /\ request' = args
    /\ result' = [raised |-> r.raised, response |-> Plain(r.ret), code |-> 0]
    /\ calls' = r.log
    /\ kv' = r.st.kv
    /\ failsLeft' = r.st.failsLeft
    /\ okLeft' = r.st.okLeft

\* one call of get_score(store, phone, email, birthday, gender, first_name, last_name)
CallGetScore ==
    /\ pc = "idle"
    /\ \E args \in ScoreInputs :
        Got(args, get_score(StoreState, args[1], args[2], args[3], args[4], args[5], args[6]))
    /\ pc' = "scored"
    /\ UNCHANGED <<tick, failKind, ctx, inst, kept, reply>>

\* the call missed the cache, computed the score and wrote it
MissedAndWrote(log) ==
    /\ Len(log) = 2
    /\ log[1] = Event("cache_get", log[1].key, "ok")
    /\ log[2] = Event("cache_set", log[1].key, "ok")

\* the caller is done with the value; the call may be the one remembered
Drop ==
    /\ pc \in {"scored", "read"}
    /\ pc' = "idle"
    /\ \E remember \in {FALSE, pc = "scored"} :
        kept' = IF remember
                THEN [args |-> request, ret |-> result.response.score,
                      wrote |-> MissedAndWrote(calls), fresh |-> result.raised = ""]
                ELSE kept
    /\ request' = JNull
    /\ result' = NoResult
    /\ calls' = <<>>
    /\ UNCHANGED <<tick, kv, failsLeft, failKind, okLeft, ctx, inst, reply>>

\* one call of get_interests(store, cid)
CallGetInterests ==
    /\ pc = "idle"
    /\ \E cid \in {<<"int", Numeral(n)>> : n \in 1..6} \cup {<<"str", "1">>} :
        Got([op |-> "get_interests", cid |-> cid], get_interests(StoreState, cid))
    /\ pc' = "read"
    /\ UNCHANGED <<tick, failKind, ctx, inst, kept, reply>>

\* one call of Store.get(key)
CallStoreGet ==
    /\ pc = "idle"
    /\ \E key \in {"i:1", "i:4"} :
        Got([op |-> "get", key |-> key], Store_get(StoreState, key))
    /\ pc' = "read"
    /\ UNCHANGED <<tick, failKind, ctx, inst, kept, reply>>

NextReads == CallGetInterests \/ CallStoreGet \/ Drop \/ Tick \/ Backend \/ BackendLater

SpecReads == Init /\ [][NextReads]_vars

\* every choice of present and absent inputs
PresenceInputs ==
    { <<phone, email, birthday, gender, first_name, last_name>> :
        phone \in {JNull, GoodPhone}, email \in {JNull, GoodEmail},
        birthday \in {JNull, DateTime(2000, 1, 1)},
        gender \in {JNull, JInt("0"), JInt("1")},
        first_name \in {JNull, JStr("A")}, last_name \in {JNull, JStr("B")} }

\* the scores held by the cache
Cached == DOMAIN kv \ DOMAIN InterestsDB

\* one call of get_score on any of these inputs, while the cache holds at
\* most MaxCached scores
CallGetScoreAny ==
    /\ pc = "idle"
    /\ Cardinality(Cached) <= MaxCached
    /\ \E args \in PresenceInputs :
        Got(args, get_score(StoreState, args[1], args[2], args[3], args[4], args[5], args[6]))
    /\ pc' = "scored"
    /\ UNCHANGED <<tick, failKind, ctx, inst, kept, reply>>

\* the caller is done with the value and remembers nothing
Forget ==
    /\ pc = "scored"
    /\ pc' = "idle"
    /\ request' = JNull
    /\ result' = NoResult
    /\ calls' = <<>>
    /\ UNCHANGED <<tick, kv, failsLeft, failKind, okLeft, ctx, inst, kept, reply>>

NextMiss == CallGetScoreAny \/ Forget \/ Expire \/ Backend

SpecMiss == Init /\ [][NextMiss]_vars

NextStore == CallGetScore \/ Drop \/ Tick \/ Expire \/ Backend \/ BackendLater

SpecStore == Init /\ [][NextStore]_vars

(**************************** schema instances *****************************)
\* what a raw mapping may hold under a field of each kind
RawValues(kind) ==
    CASE kind = "CharField" -> {Absent, JNull, JStr("A"), JStr(""), JInt("1")}
      [] kind = "ArgumentsField" -> {Absent, JNull, Args(NoItems), JList(<<>>)}
      [] kind = "EmailField" -> {Absent, JNull, GoodEmail, JStr("otus.ru")}
      [] kind = "PhoneField" ->
            {Absent, JNull, GoodPhone, JInt("79175002040"), JStr("7917500")}
      [] kind = "BirthDayField" -> {Absent, JNull, Young, SeventyToday, NotADate}
      [] kind = "GenderField" -> {Absent, JNull, JInt("1"), JInt("3"), JList(<<>>)}
      [] kind = "ClientIDsField" ->
            {Absent, JNull, JList(<< <<"int", "1">>, <<"int", "2">> >>), JList(<<>>),
             JList(<< <<"str", "1">> >>)}
      [] OTHER -> {Absent, JNull, Young, NotADate, JInt("1")}

\* the mappings over the fields from the i-th on, a key left out when Absent
RECURSIVE RawItems(_, _)
RawItems(schema, i) ==
    IF i > Len(Fields(schema)) THEN {NoItems}
    ELSE {IF v = Absent THEN rest ELSE (Fields(schema)[i] :> v) @@ rest :
            rest \in RawItems(schema, i + 1),
            v \in RawValues(FieldDecl(schema, Fields(schema)[i]).kind)}

RawMappings(schema) == {JDict(items) : items \in RawItems(schema, 1)}

Schemas == {"MethodRequest", "OnlineScoreRequest", "ClientsInterestsRequest"}

\* instance = schema(raw) at the current hour
Construct ==
    /\ inst = IdleInst
    /\ \E schema \in Schemas : \E raw \in RawMappings(schema) :
        inst' = [raw |-> raw, obj |-> BaseRequest_init(schema, raw, Now(tick)), at |-> tick]
    /\ UNCHANGED <<tick, kv, failsLeft, failKind, okLeft, pc, request, result, ctx, calls, kept, reply>>

\* the instance goes out of scope
Release ==
    /\ inst # IdleInst
    /\ inst' = IdleInst
    /\ UNCHANGED <<tick, kv, failsLeft, failKind, okLeft, pc, request, result, ctx, calls, kept, reply>>

NextSchema == Construct \/ Release \/ Tick

SpecSchema == Init /\ [][NextSchema]_vars

(***************************** properties **********************************)
Returns == pc = "returned"

\* MethodRequest(request.get("body")) and check_auth(method_req) of the last call
MethodReq == BaseRequest_init("MethodRequest", request, Now(tick))
AuthOutcome == check_auth(MethodReq, Now(tick))
ValidEnvelope == Returns /\ request.ty = "dict" /\ MethodReq.raised = "" /\ is_valid(MethodReq)
AuthPassed == ValidEnvelope /\ AuthOutcome.raised = "" /\ AuthOutcome.ok
AuthFailed == ValidEnvelope /\ AuthOutcome.raised = "" /\ ~AuthOutcome.ok

Item(body, name) == IF name \in DOMAIN body.d THEN body.d[name] ELSE Absent

\* the argument schemas of the last call
ScoreReq == BaseRequest_init("OnlineScoreRequest", Item(request, "arguments"), Now(tick))
InterestReq == BaseRequest_init("ClientsInterestsRequest", Item(request, "arguments"), Now(tick))
ValidInstance(self) == self.raised = "" /\ is_valid(self)

NoStoreCall == calls = <<>>
ContextUntouched == DOMAIN ctx = {"request_id"}
Answer(payload, code) == [raised |-> "", response |-> payload, code |-> code]

StartsWith(text, prefix) ==
    Len(text) >= Len(prefix) /\ SubSeq(text, 1, Len(prefix)) = prefix

\* C1: for a body that is a JSON object and a store whose calls do not fail,
\* method_handler never raises and returns a status among 200, 403, 404, 422.
C1_NeverRaises ==
    (Returns /\ request.ty = "dict" /\ \A i \in 1..Len(calls) : calls[i].outcome = "ok")
        => result.raised = "" /\ result.code \in {OK, FORBIDDEN, NOT_FOUND, INVALID_REQUEST}

\* C2: when the envelope is valid and check_auth returns false, the answer is
\* ("Forbidden", 403) whatever the method and the arguments are, no store call
\* is made and the context is left as it was.
C2_ForbiddenFirst ==
    AuthFailed => /\ result = Answer(Text("Forbidden"), FORBIDDEN)
                  /\ NoStoreCall
                  /\ ContextUntouched

C2_Witness ==
    /\ AuthFailed
    /\ result.code = FORBIDDEN
    /\ Item(request, "method") = JStr("online_score")
    /\ Item(request, "arguments") = Args("first_name" :> JStr("A"))

\* the envelope fields as the claim C3 lists their failures
EnvelopeOrder == <<"account", "login", "token", "arguments", "method">>

EnvelopeFails(body, name) ==
    \/ name \in {"login", "token", "arguments", "method"} /\ name \notin DOMAIN body.d
    \/ name = "method" /\ Item(body, name).ty = "null"
    \/ /\ name \in DOMAIN body.d
       /\ body.d[name].ty # "null"
       /\ body.d[name].ty # (IF name = "arguments" THEN "dict" ELSE "str")

InvalidEnvelope == Returns /\ request.ty = "dict" /\ \E i \in 1..5 : EnvelopeFails(request, EnvelopeOrder[i])

FirstFailing(body) ==
    EnvelopeOrder[CHOOSE i \in 1..5 :
                    /\ EnvelopeFails(body, EnvelopeOrder[i])
                    /\ \A j \in 1..(i - 1) : ~EnvelopeFails(body, EnvelopeOrder[j])]

\* C3: an invalid envelope is answered 422 with a message naming the first
\* field that failed, whatever authentication would say, without a store call.
C3_InvalidEnvelope ==
    InvalidEnvelope =>
        /\ result.raised = ""
        /\ result.code = INVALID_REQUEST
        /\ result.response.kind = "text"
        /\ StartsWith(result.response.text,
                      "Validation Error in field '" \o FirstFailing(request) \o "': ")
        /\ NoStoreCall
        /\ ContextUntouched

C3_Witness ==
    /\ InvalidEnvelope
    /\ result.code = INVALID_REQUEST
    /\ Item(request, "login").ty = "int"
    /\ Item(request, "method").ty = "null"
    /\ Item(request, "token") = JStr(AdminToken(tick))

\* the digest C4 expects of the token
ExpectedDigest(body, now) ==
    IF Item(body, "login") = JStr("admin") THEN Sha512Hex(StrftimeHour(now) \o "42")
    ELSE Sha512Hex((IF Item(body, "account").ty = "str" THEN body.d["account"].s ELSE "")
                   \o body.d["login"].s \o "Otus")

\* C4: check_auth returns true exactly when login and token are not null and
\* the token is the expected digest: of the hour and "42" for admin, of
\* (account or "") + login + "Otus" otherwise.
C4_CheckAuth ==
    ValidEnvelope =>
        ((AuthOutcome.raised = "" /\ AuthOutcome.ok)
            <=> /\ request.d["login"].ty # "null"
                /\ request.d["token"].ty # "null"
                /\ request.d["token"].s = ExpectedDigest(request, Now(tick)))

\* C5: past authentication, a method that is neither online_score nor
\* clients_interests is answered ("Method not found", 404); the arguments are
\* not validated, the store is not called and the context is not written.
C5_MethodNotFound ==
    (AuthPassed /\ Item(request, "method") \notin {JStr("online_score"), JStr("clients_interests")})
        => /\ result = Answer(Text("Method not found"), NOT_FOUND)
           /\ NoStoreCall
           /\ ContextUntouched

C5_Witness ==
    /\ AuthPassed
    /\ Item(request, "method") = JStr("ping")
    /\ Item(request, "arguments").ty = "null"
    /\ result.code = NOT_FOUND

\* C6: an authenticated admin asking online_score with valid arguments gets
\* ({"score": 42}, 200) and the store is not called, whatever its state.
C6_AdminScore ==
    (/\ AuthPassed
     /\ Item(request, "login") = JStr("admin")
     /\ Item(request, "method") = JStr("online_score")
     /\ ValidInstance(ScoreReq))
        => result = Answer(Score(JInt("42")), OK) /\ NoStoreCall

C6_Witness ==
    /\ AuthPassed
    /\ Item(request, "login") = JStr("admin")
    /\ Item(request, "method") = JStr("online_score")
    /\ ValidInstance(ScoreReq)
    /\ failsLeft > 0
    /\ result.code = OK

\* the ids of the last clients_interests call and what the store holds for one
ClientIds == Item(request.d["arguments"], "client_ids").l
StoredInterests(cid) ==
    get_interests([kv |-> kv, failsLeft |-> 0, failKind |-> failKind, okLeft |-> 0], cid).ret

\* every Store.get of the call returned: the log does not end on a failure
ReadsSucceeded == calls # <<>> /\ calls[Len(calls)].outcome = "ok"

InterestsCall ==
    /\ AuthPassed
    /\ Item(request, "method") = JStr("clients_interests")
    /\ ValidInstance(InterestReq)
    /\ ReadsSucceeded

\* C7: an authenticated clients_interests call with valid arguments whose store
\* reads succeed is answered 200 with a mapping keyed by exactly the
\* stringified client ids, each to get_interests of the id; never {"score": 42}.
C7_Interests ==
    InterestsCall =>
        /\ result.raised = ""
        /\ result.code = OK
        /\ result.response.kind = "interests"
        /\ DOMAIN result.response.map = {ElemStr(ClientIds[i]) : i \in 1..Len(ClientIds)}
        /\ \A i \in 1..Len(ClientIds) :
              result.response.map[ElemStr(ClientIds[i])] = StoredInterests(ClientIds[i])

C7_Witness ==
    /\ InterestsCall
    /\ Item(request, "login") = JStr("admin")
    /\ result.code = OK
    /\ DOMAIN result.response.map = {"1", "2"}
    /\ result.response.map["1"] = JList(<< <<"str", "cars">>, <<"str", "pets">> >>)
    /\ result.response.map["2"] = JList(<< <<"str", "1">>, <<"str", "2">> >>)


(* schema instances *)
Constructed == inst.obj.schema # "none" /\ inst.obj.raised = ""

Present(raw, name) == name \in DOMAIN raw.d /\ raw.d[name].ty # "null"

\* every supplied value passes the rule of its field
SuppliedPass ==
    \A name \in DOMAIN inst.raw.d :
        Present(inst.raw, name) =>
            Field_validate(FieldDecl(inst.obj.schema, name).kind, inst.raw.d[name],
                           Now(inst.at)).res = "ok"

PairComplete(a, b) == Present(inst.raw, a) /\ Present(inst.raw, b)

AnyPairComplete ==
    \/ PairComplete("phone", "email")
    \/ PairComplete("first_name", "last_name")
    \/ PairComplete("birthday", "gender")

\* C8: an OnlineScoreRequest whose supplied fields all pass their own rule is
\* valid exactly when one of the pairs (phone, email), (first_name, last_name),
\* (birthday, gender) is present with non-null values; otherwise its errors
\* are exactly {"arguments": ...}.
C8_PairRule ==
    (inst.obj.schema = "OnlineScoreRequest" /\ SuppliedPass) =>
        /\ inst.obj.raised = ""
        /\ is_valid(inst.obj) <=> AnyPairComplete
        /\ ~AnyPairComplete => Keys(get_errors(inst.obj)) = {"arguments"}

C8_Witness ==
    /\ inst.obj.schema = "OnlineScoreRequest"
    /\ SuppliedPass
    /\ Present(inst.raw, "phone") /\ Present(inst.raw, "first_name")
    /\ Present(inst.raw, "gender")
    /\ "email" \in DOMAIN inst.raw.d /\ "birthday" \notin DOMAIN inst.raw.d
    /\ ~AnyPairComplete
    /\ Keys(get_errors(inst.obj)) = {"arguments"}

\* getattr(instance, name, None) is None
NoAttribute(self, name) == GetAttr(self, name) = JNull

\* C9: a raw mapping lacking a required field gives an invalid instance whose
\* errors hold the field's name; lacking a field that is not required gives
\* no error for it and no attribute of that name.
C9_MissingField ==
    Constructed =>
        \A name \in FieldNames(inst.obj.schema) \ DOMAIN inst.raw.d :
            IF FieldDecl(inst.obj.schema, name).required
            THEN ~is_valid(inst.obj) /\ name \in Keys(get_errors(inst.obj))
            ELSE name \notin Keys(get_errors(inst.obj)) /\ NoAttribute(inst.obj, name)

\* C10: a declared field present with value null gives, when nullable, no
\* error and no attribute of that name; when not nullable, its name in the
\* errors and no attribute of that name.
C10_NullField ==
    Constructed =>
        \A name \in FieldNames(inst.obj.schema) \cap DOMAIN inst.raw.d :
            inst.raw.d[name].ty = "null" =>
                /\ FieldDecl(inst.obj.schema, name).nullable
                      <=> name \notin Keys(get_errors(inst.obj))
                /\ NoAttribute(inst.obj, name)


(* scoring through the dispatcher *)
\* a non-admin online_score call that got as far as get_score
ScoreCall ==
    /\ AuthPassed
    /\ Item(request, "login") # JStr("admin")
    /\ Item(request, "method") = JStr("online_score")
    /\ ValidInstance(ScoreReq)

\* the score get_score computes for the attributes the dispatcher hands over
ComputedScore ==
    JFloat(FloatRepr(ComputeScore(GetAttr(ScoreReq, "phone"), GetAttr(ScoreReq, "email"),
                                  GetAttr(ScoreReq, "birthday"), GetAttr(ScoreReq, "gender"),
                                  GetAttr(ScoreReq, "first_name"),
                                  GetAttr(ScoreReq, "last_name"))))

\* C11: the cache never fails get_score: a cache read that raises is taken for
\* a miss, a cache write that raises is ignored, the computed score is
\* returned, each cache operation is issued once and without a retry, and the
\* non-admin online_score request is answered 200.
C11_CacheNeverFails ==
    ScoreCall =>
        /\ result.raised = ""
        /\ result.code = OK
        /\ result.response.kind = "score"
        /\ Len(calls) \in {1, 2}
        /\ calls[1].op = "cache_get"
        /\ Len(calls) = 1 => calls[1].outcome = "ok"
        /\ Len(calls) = 2 =>
              /\ calls[2].op = "cache_set"
              /\ calls[2].key = calls[1].key
              /\ result.response.score = ComputedScore

C11_Witness ==
    /\ ScoreCall
    /\ Len(calls) = 2
    /\ calls[1].outcome = "ConnectionError"
    /\ calls[2].outcome = "ConnectionError"
    /\ result.code = OK


(* transport *)
Posted == pc = "posted"

\* the last backend call of the request was a read that raised
StoreReadFailed ==
    /\ calls # <<>>
    /\ calls[Len(calls)].op = "get"
    /\ calls[Len(calls)].outcome # "ok"

GenericError == [key |-> "error", payload |-> Text("Internal Server Error"), code |-> INTERNAL_ERROR]

\* C12: a store read that fails past the retries is not reported as "no
\* interests": the error leaves get_interests and method_handler, which returns
\* no mapping, and the transport answers 500 with the generic message only.
C12_StoreFailure ==
    (Posted /\ reply.invoked /\ StoreReadFailed) =>
        /\ result.raised = calls[Len(calls)].outcome
        /\ result.response = NoPayload
        /\ reply.code = INTERNAL_ERROR
        /\ reply.body = GenericError

\* the first client's interests were read, the read for the second one failed
C12_Witness ==
    /\ Posted /\ reply.invoked /\ StoreReadFailed
    /\ Len(calls) = 6
    /\ calls[1].outcome = "ok"
    /\ calls[2].outcome = "ConnectionError"
    /\ calls[2].key # calls[1].key
    /\ reply.code = INTERNAL_ERROR

\* the body sent is empty, is not JSON, or is JSON other than an object
EmptyBody == reply.post.header \in {"", "0"}
NotAnObject ==
    /\ NatOf(reply.post.header) > 0
    /\ ~Loads(reply.post.data).ok \/ Loads(reply.post.data).v.ty # "dict"

\* C17: a POST whose body is empty, is not JSON or is JSON of another type
\* than an object is answered 400 with an {"error", "code"} envelope and the
\* method handler is not invoked.
C17_MalformedBody ==
    (Posted /\ (EmptyBody \/ NotAnObject)) =>
        /\ reply.code = BAD_REQUEST
        /\ reply.body.key = "error"
        /\ reply.body.code = BAD_REQUEST
        /\ ~reply.invoked


(* get_score called on its own *)
Scored == pc = "scored" /\ result.raised = ""

\* the call that just returned has the inputs of the remembered earlier call
SameInputsAgain == Scored /\ kept.args = request

\* C13: get_score is a function of its six inputs: two calls with the same
\* inputs against one store return the same value, whatever calls, expiries
\* and cache failures lie between them.
C13_FunctionOfInputs ==
    SameInputsAgain => result.response.score = kept.ret

\* the key and the text stored for the remembered call
KeptKey == ScoreKey(kept.args[1], kept.args[3], kept.args[5], kept.args[6])

\* C15: with a working cache, after a call that missed, computed and wrote, a
\* second call with the same inputs before the expiry returns the same value
\* with one cache read and no cache write, reading the entry stored under the
\* same key with the expiry of 3600 given to cache_set.
C15_SecondCallHits ==
    (SameInputsAgain /\ kept.wrote /\ kept.fresh) =>
        /\ result.response.score = kept.ret
        /\ calls = <<Event("cache_get", KeptKey, "ok")>>
        /\ KeptKey \in DOMAIN kv
        /\ kv[KeptKey] = [v |-> kept.ret.s, ex |-> 3600]

C15_Witness ==
    /\ SameInputsAgain /\ kept.wrote /\ kept.fresh
    /\ kept.args = <<GoodPhone, GoodEmail, DateTime(2000, 1, 1), JInt("1"), JNull, JNull>>
    /\ result.response.score = JFloat("4.5")
    /\ Len(calls) = 1


(* the store read on its own *)
InterestsRead == pc = "read" /\ request.op = "get_interests" /\ result.raised = ""
InterestsKey == "i:" \o request.cid[2]

\* the stored arrays, element by element as str() renders them
StoredStrings ==
    "[\"cars\", \"pets\"]" :> <<"cars", "pets">>
    @@ "[1, 2]" :> <<"1", "2">>
    @@ "[true, null, \"x\", 7]" :> <<"True", "None", "x", "7">>

\* C16: get_interests(cid) reads "i:{cid}" with the authoritative get and
\* returns [] for a missing key, [] for stored JSON that is not a list, and
\* otherwise the stored elements as strings, same length and same order.
C16_Interests ==
    InterestsRead =>
        /\ \A i \in 1..Len(calls) : calls[i].op = "get" => calls[i].key = InterestsKey
        /\ calls[Len(calls)] = Event("get", InterestsKey, "ok")
        /\ InterestsKey \notin DOMAIN kv => result.response.score = JList(<<>>)
        /\ InterestsKey \in DOMAIN kv =>
              /\ kv[InterestsKey].v = "{\"a\": 1}" => result.response.score = JList(<<>>)
              /\ kv[InterestsKey].v \in DOMAIN StoredStrings =>
                    result.response.score =
                        JList([i \in 1..Len(StoredStrings[kv[InterestsKey].v]) |->
                                  <<"str", StoredStrings[kv[InterestsKey].v][i]>>])

C16_Witness ==
    /\ InterestsRead
    /\ request.cid = <<"int", "6">>
    /\ Len(result.response.score.l) = 4
    /\ result.response.score.l[1] = <<"str", "True">>
    /\ result.response.score.l[4] = <<"str", "7">>

StoreRead == pc = "read" /\ request.op = "get"
Attempts == (Len(calls) + 1) \div 2
LastAttempt == calls[Len(calls)]

\* C18: Store.get calls the backend at most 3 times, returns what the first
\* attempt that does not raise returns, tries again only after a connection
\* error, sleeping the fixed delay between attempts and not after the last;
\* any other error propagates at once, and so does the connection error of
\* the third attempt.
C18_Retries ==
    StoreRead =>
        /\ Len(calls) \in {1, 3, 5}
        /\ Attempts <= 3
        /\ \A i \in 1..Len(calls) :
              IF i % 2 = 1
              THEN /\ calls[i].op = "get"
                   /\ calls[i].key = request.key
                   /\ i < Len(calls) => calls[i].outcome = "ConnectionError"
              ELSE calls[i] = Event("sleep", "", "1")
        /\ LastAttempt.outcome = "ok" =>
              /\ result.raised = ""
              /\ result.response.score =
                    (IF request.key \in DOMAIN kv THEN JStr(kv[request.key].v) ELSE JNull)
        /\ LastAttempt.outcome = "RedisError" =>
              Attempts = 1 /\ result.raised = "RedisError"
        /\ LastAttempt.outcome = "ConnectionError" =>
              Attempts = 3 /\ result.raised = "ConnectionError"

C18_Witness ==
    /\ StoreRead
    /\ Attempts = 3
    /\ LastAttempt.outcome = "ok"
    /\ request.key = "i:1"
    /\ result.response.score = JStr("[\"cars\", \"pets\"]")


(* the end-to-end scoring request *)
\* a non-admin online_score call with the digest of its own account and login,
\* whose arguments pass validation and carry a phone and an email
PhoneAndEmailCall ==
    /\ ValidEnvelope
    /\ Item(request, "login").ty = "str"
    /\ Item(request, "login") # JStr("admin")
    /\ Item(request, "token") = JStr(ExpectedDigest(request, Now(tick)))
    /\ Item(request, "method") = JStr("online_score")
    /\ Item(request, "arguments").ty = "dict"
    /\ ValidInstance(ScoreReq)
    /\ Item(Item(request, "arguments"), "phone").ty \in {"str", "int"}
    /\ Item(Item(request, "arguments"), "email").ty = "str"

AtLeastThree == {FloatRepr(tenths) : tenths \in 30..50}

\* C14: in every reachable store state, a non-admin online_score request with
\* a correct token and a valid phone and email in its arguments is answered
\* 200 with a numeric score of at least 3.0.
C14_PhoneAndEmail ==
    PhoneAndEmailCall =>
        /\ result.raised = ""
        /\ result.code = OK
        /\ result.response.kind = "score"
        /\ result.response.score.ty = "float"
        /\ result.response.score.s \in AtLeastThree

(* a gender outside 0, 1, 2 *)
GenderArg == Item(Item(request, "arguments"), "gender")

BadGenderCall ==
    /\ AuthPassed
    /\ Item(request, "method") = JStr("online_score")
    /\ Item(request, "arguments").ty = "dict"
    /\ GenderArg \notin {Absent, JNull, JInt("0"), JInt("1"), JInt("2")}

\* C19: an authenticated online_score request whose gender is not one of the
\* integers 0, 1, 2, whatever its JSON type, is a validation failure: gender
\* is recorded in the errors and the answer is 422, never 500 and never 200.
C19_BadGender ==
    BadGenderCall =>
        /\ result.raised = ""
        /\ result.code = INVALID_REQUEST
        /\ ScoreReq.raised = ""
        /\ "gender" \in Keys(ScoreReq.errors)


(* the cache key of a dispatched request *)
\* a key component as the arguments supply it: null counts as absent
Supplied(arguments, name) ==
    IF Item(arguments, name).ty = "null" THEN Absent ELSE Item(arguments, name)

SamePerson(a, b) ==
    /\ Supplied(a, "first_name") = Supplied(b, "first_name")
    /\ Supplied(a, "last_name") = Supplied(b, "last_name")
    /\ Supplied(a, "phone").s = Supplied(b, "phone").s
    /\ (Supplied(a, "phone") = Absent) = (Supplied(b, "phone") = Absent)

\* the key get_score builds for the attributes method_handler hands over
KeyFor(self) ==
    ScoreKey(GetAttr(self, "phone"), GetAttr(self, "birthday"),
             GetAttr(self, "first_name"), GetAttr(self, "last_name"))

HandlerKey(arguments) == KeyFor(BaseRequest_init("OnlineScoreRequest", arguments, Now(tick)))

\* C20: for online_score requests dispatched by method_handler the cache key
\* is determined by first_name, last_name, phone and birthday: a request that
\* agrees with the dispatched one on all four has the same key, and one that
\* agrees on first_name, last_name and phone but supplies a different
\* birthday has a different key.
C20_KeyComponents ==
    (ScoreCall /\ calls # <<>>) =>
        /\ calls[1].key = HandlerKey(Item(request, "arguments"))
        /\ \A other \in ValidScoreArgs :
              SamePerson(Item(request, "arguments"), other) =>
                  /\ Supplied(other, "birthday") = Supplied(Item(request, "arguments"), "birthday")
                        => HandlerKey(other) = calls[1].key
                  /\ ( /\ Supplied(other, "birthday") # Absent
                       /\ Supplied(Item(request, "arguments"), "birthday") # Absent
                       /\ Supplied(other, "birthday")
                             # Supplied(Item(request, "arguments"), "birthday") )
                        => HandlerKey(other) # calls[1].key


(* the field pass and the cross-field pass *)
\* the instance as the loop over the declared fields leaves it
FieldPass == VisitFields(NewInstance(inst.obj.schema), inst.raw, 1, Now(inst.at))

\* the outcome of the field's rule on the supplied value
RuleOn(name) ==
    Field_validate(FieldDecl(inst.obj.schema, name).kind, inst.raw.d[name], Now(inst.at))

\* the declared fields that owe an error
Failing ==
    {name \in FieldNames(inst.obj.schema) :
        \/ name \notin DOMAIN inst.raw.d /\ FieldDecl(inst.obj.schema, name).required
        \/ /\ name \in DOMAIN inst.raw.d
           /\ inst.raw.d[name].ty = "null"
           /\ ~FieldDecl(inst.obj.schema, name).nullable
        \/ Present(inst.raw, name) /\ RuleOn(name).res # "ok"}

Passing == {name \in FieldNames(inst.obj.schema) : Present(inst.raw, name) /\ RuleOn(name).res = "ok"}

\* C21: for every schema and raw mapping the field pass visits every declared
\* field exactly once and leaves an error mapping whose keys are exactly the
\* fields that are absent and required, null and not nullable, or present
\* with a value that fails the field's rule; a failing field hides no other
\* field's error, and the fields that passed keep their attribute.
C21_AllErrorsCollected ==
    inst.obj.schema # "none" =>
        /\ FieldPass.raised = ""
        /\ FieldPass.visited = Fields(inst.obj.schema)
        /\ Keys(FieldPass.errors) = Failing
        /\ inst.obj = AfterFields(FieldPass)
        /\ DOMAIN inst.obj.attrs = Passing
        /\ \A name \in Passing : inst.obj.attrs[name] = inst.raw.d[name]


\* C22: post_validate runs at most once per instance, only after every
\* declared field was visited and only when the field pass recorded no error;
\* so in an OnlineScoreRequest the key "arguments" is never in the errors
\* together with a field's key.
C22_CrossAfterFields ==
    inst.obj.schema # "none" =>
        /\ inst.obj.post <= 1
        /\ inst.obj.post = 1 =>
              /\ inst.obj.visited = Fields(inst.obj.schema)
              /\ FieldPass.raised = ""
              /\ FieldPass.errors = <<>>
        /\ (inst.obj.schema = "OnlineScoreRequest" /\ "arguments" \in Keys(inst.obj.errors)) =>
              Keys(inst.obj.errors) = {"arguments"}

C22_Witness ==
    /\ inst.obj.schema = "OnlineScoreRequest"
    /\ inst.obj.post = 1
    /\ inst.obj.visited = Fields("OnlineScoreRequest")
    /\ Present(inst.raw, "phone") /\ Present(inst.raw, "gender")
    /\ Keys(inst.obj.errors) = {"arguments"}


(* the computed score *)
\* the call found nothing in the cache, or could not read it
Missed == pc = "scored" /\ result.raised = "" /\ Len(calls) = 2 /\ calls[2].op = "cache_set"

Given(i) == request[i].ty # "null"

\* the sum of the four terms, in tenths
Sum ==
    (IF Given(1) THEN 15 ELSE 0) + (IF Given(2) THEN 15 ELSE 0)
    + (IF Given(3) /\ Given(4) THEN 15 ELSE 0) + (IF Given(5) /\ Given(6) THEN 5 ELSE 0)

\* C23: on a cache miss get_score returns the sum of 1.5 for a phone, 1.5 for
\* an email, 1.5 for birthday and gender together (gender 0 included) and 0.5
\* for first_name and last_name together; the value is a multiple of 0.5
\* between 0.0 and 5.0, and it is 5.0 exactly when all six inputs are present.
C23_ScoreSum ==
    Missed =>
        /\ result.response.score = JFloat(FloatRepr(Sum))
        /\ result.response.score.s \in {FloatRepr(5 * k) : k \in 0..10}
        /\ result.response.score.s = "5.0" <=> \A i \in 1..6 : Given(i)

C23_Witness ==
    /\ Missed
    /\ request = <<GoodPhone, JNull, DateTime(2000, 1, 1), JInt("0"), JStr("A"), JStr("B")>>
    /\ calls[1].outcome = "RedisError"
    /\ result.response.score = JFloat("3.5")

====
